---- MODULE Spec2Model ----
(***************************************************************************)
(* spectator-cpp: MaxGauge (max_gauge.cc), Registry (registry.cc) and      *)
(* Publisher (publisher.h) as state machines.                              *)
(*                                                                         *)
(* Three specifications share the module:                                  *)
(*   SpecGauge     one MaxGauge updated by several threads (the            *)
(*                 compare-and-set loop, step by step) and measured        *)
(*   SpecRegistry  a Registry: get-or-create, updates through the handles, *)
(*                 Measure() and Measurements()                            *)
(*   SpecPublisher one Publisher: Start(), Stop() and the sender thread    *)
(* The variables a specification does not use keep their initial values.   *)
(***************************************************************************)
EXTENDS Integers, Sequences, FiniteSets, TLC

----------------------------------------------------------------------------
(* Bounds of the model *)

\* application threads calling into a meter or into the registry
NumThreads == 2
\* the largest value passed to Update()
MaxValue == 1
\* meter objects that can be alive at the same time
MaxInst == 3
\* the largest total a Counter accumulates in the model
MaxCount == 1
\* threads calling Start() and Stop() on the publisher
NumCallers == 2
\* Start()/Stop() calls each caller makes
MaxCalls == 2
\* the largest snapshot of a send cycle
MaxPending == 3
\* the largest configured batch size
MaxBatchSize == 3
\* the largest configured timeout, in seconds
MaxTimeout == 2
\* the largest batch given to the encoder
MaxBatchLen == 2

----------------------------------------------------------------------------
(* Values, identities, measurements *)

\* std::numeric_limits<double>::lowest(), the "no value" sentinel
kMinValue == -1
\* a double below lowest(): -infinity
NegInf == kMinValue - 1
\* the doubles Update(double) is called with
Values == NegInf .. MaxValue

Threads == 1 .. NumThreads
Insts == 1 .. MaxInst
NoMeter == [type |-> "none"]
\* an empty shared_ptr
None == 0

RECURSIVE SetMax(_)
SetMax(S) == LET x == CHOOSE y \in S : TRUE
             IN IF S = {x} THEN x
                ELSE LET m == SetMax(S \ {x}) IN IF x > m THEN x ELSE m

\* Id: a name and a set of <<key, value>> tags
MkId(name) == [name |-> name, tags |-> {}]
Names == {"requests", "queueSize"}
Ids == {MkId(n) : n \in Names}
GaugeId == MkId("queueSize")

\* Id::WithStat: the identity with the tag statistic=s added or overridden
WithStat(id, s) ==
  [name |-> id.name,
   tags |-> {p \in id.tags : p[1] # "statistic"} \cup {<<"statistic", s>>}]

MeterTypes == {"Counter", "MaxGauge"}

\* MaxGauge::MaxGauge: value_{kMinValue}
NewMaxGauge(id) == [type |-> "MaxGauge", id |-> id, value |-> kMinValue]
\* Counter::Counter: count_{0}
NewCounter(id) == [type |-> "Counter", id |-> id, value |-> 0]
NewMeter(type, id) == IF type = "MaxGauge" THEN NewMaxGauge(id) ELSE NewCounter(id)

VARIABLES
  \* ---- SpecGauge: one MaxGauge
  value_,      \* MaxGauge::value_
  upc,         \* where each updating thread is: "idle", "loop", "ret"
  uarg,        \* Update(value): the value
  ucur,        \* update_max: the local `current`
  \* history of the gauge (not program state)
  window,      \* values of the updates that took effect since the last Measure()
  doneAny,     \* values of the Update() calls completed since the last Measure()
  fresh,       \* per thread: its running Update() began after the last Measure()
  allBegan,    \* every Update() completed since the last Measure() began after it
  last,        \* the last Measure(): what it returned, how many values had completed
  \* ---- SpecRegistry
  heap,        \* the meter objects: Insts -> meter record or NoMeter
  meters_,     \* Registry::meters_: a function from the registered Ids to Insts
  mutexHeld,   \* Registry::meters_mutex is held by a running Measurements()
  pc,          \* where each application thread is: "idle", "get_insert"
  handle,      \* the meter pointer a thread's last GetX() returned (None: none yet,
               \* or the thread is in GetX() again)
  newm,        \* create_and_register_as_needed: new_meter_ptr
  todo,        \* Measurements(): the map entries the loop has not visited
  res,         \* Measurements(): res
  typeErrors,  \* the lines log_type_error wrote: {<<id, prev_type, attempted_type>>}
  \* history of the registry (not program state)
  idle,        \* per meter: no Update() since its construction or its last Measure()
  outcome,     \* per thread: how its last GetX() ended: "inserted", "existing", "mismatch"
  snapIdle,    \* Measurements(): every meter visited so far was idle
  \* ---- SpecPublisher
  uriEmpty,         \* cfg.uri.empty()
  started_,
  should_stop_,
  sender_thread_,   \* "none" (default constructed), "joinable", "joined"
  http_initialized, \* the function-local static of Start()
  worker,           \* where the sender thread is
  cpc,              \* where each caller of Start()/Stop() is
  callsLeft,        \* calls each caller may still make
  fault,            \* an exception left a noexcept function: std::terminate
  initBy,           \* the callers whose latest Start() ran GlobalInit
  cycle,            \* how the send_metrics() call the sender has just made ended:
                    \* "returned", "caught" (it threw, sender() caught and logged),
                    \* "uncaught" (it threw past the handler); "none" otherwise
  log,              \* what happened: the warnings logged, the threads spawned, the
                    \* GlobalInit, GlobalShutdown and join calls, the Start() calls
                    \* returned, the Stop() calls that returned at once, the
                    \* "already started" warnings logged after a Stop() completed
  \* ---- SpecSend: one send_metrics() call
  cfg,          \* registry_->GetConfig(): read_timeout, connect_timeout, batch_size
  pending,      \* how many measurements registry_->Measurements() is going to return
  spc,          \* where send_metrics() is: "client", "snapshot", "loop", "account", "done"
  client,       \* the HttpClient built: its connect_timeout and read_timeout
  measurements, \* the snapshot
  from,         \* the iterator `from`, as an offset from measurements.begin()
  batches,      \* per batch, the measurements [from, to) given to measurements_to_json
  batch_sizes,
  http_codes,
  ix,           \* the index i of the accounting loop
  selfCounters, \* the registry's own counters by identity: their counts
  \* ---- SpecEncode: one measurements_to_json() call
  common_tags,  \* registry_->GetConfig().common_tags
  batch,        \* the measurements [first, last)
  epc,          \* "call": about to be called, "ret": it has returned
  payload,      \* the rapidjson::Document returned
  strings,      \* the StrTable build_str_table returned
  num_added     \* num_added, stored in *added

gaugeVars == <<value_, upc, uarg, ucur, window, doneAny, fresh, allBegan, last>>
regVars == <<heap, meters_, mutexHeld, pc, handle, newm, todo, res, typeErrors,
             idle, outcome, snapIdle>>
pubVars == <<uriEmpty, started_, should_stop_, sender_thread_, http_initialized,
             worker, cpc, callsLeft, fault, initBy, cycle, log>>
sendVars == <<cfg, pending, spc, client, measurements, from, batches, batch_sizes,
              http_codes, ix, selfCounters>>
encVars == <<common_tags, batch, epc, payload, strings, num_added>>
vars == <<gaugeVars, regVars, pubVars, sendVars, encVars>>

----------------------------------------------------------------------------
(* MaxGauge *)

\* MaxGauge::Measure with load() in place of exchange(kMinValue): the value stays
MaxGaugeMeasureNoReset(m) ==
  [out |-> IF m.value = kMinValue THEN <<>>
           ELSE <<[id |-> WithStat(m.id, "max"), value |-> m.value]>>,
   value |-> m.value]

\* MaxGauge::Measure without the sentinel test: a measurement every time
MaxGaugeMeasureAlways(m) ==
  [out |-> <<[id |-> WithStat(m.id, "max"), value |-> m.value]>>,
   value |-> kMinValue]

\* MaxGauge::Measure reporting under id_ instead of id_->WithStat("max")
MaxGaugeMeasurePlainId(m) ==
  [out |-> IF m.value = kMinValue THEN <<>>
           ELSE <<[id |-> m.id, value |-> m.value]>>,
   value |-> kMinValue]

\* MaxGauge::Measure: value_.exchange(kMinValue); no measurement for the sentinel.
\* out: the vector returned; value: value_ after the call
MaxGaugeMeasure(m) ==
  [out |-> IF m.value = kMinValue THEN <<>>
           ELSE <<[id |-> WithStat(m.id, "max"), value |-> m.value]>>,
   value |-> kMinValue]

\* an Update(v) takes effect: at its successful compare-and-set, or at the load
\* (or failed compare-and-set) that shows it a value it does not exceed
TakesEffect(v) == window' = window \cup {v}

\* an Update(v) returns
Completes(t, v) ==
  /\ doneAny' = doneAny \cup {v}
  /\ allBegan' = (allBegan /\ fresh[t])

\* MaxGauge::Update -> update_max: current = n->load()
UpdateLoad(t, v) ==
  /\ upc[t] = "idle"
  /\ uarg' = [uarg EXCEPT ![t] = v]
  /\ ucur' = [ucur EXCEPT ![t] = value_]
  /\ fresh' = [fresh EXCEPT ![t] = TRUE]
  /\ IF v > value_
       THEN /\ upc' = [upc EXCEPT ![t] = "loop"]
            /\ UNCHANGED window
       ELSE /\ upc' = [upc EXCEPT ![t] = "ret"]
            /\ TakesEffect(v)
  /\ UNCHANGED <<value_, doneAny, allBegan, last>>
  /\ UNCHANGED <<regVars, pubVars, sendVars, encVars>>

\* update_max: while (value > current) compare_exchange_weak(current, value)
UpdateCas(t) ==
  /\ upc[t] = "loop"
  /\ \/ \* the exchange succeeds: update_max returns
        /\ value_ = ucur[t]
        /\ value_' = uarg[t]
        /\ upc' = [upc EXCEPT ![t] = "idle"]
        /\ TakesEffect(uarg[t])
        /\ Completes(t, uarg[t])
        /\ uarg' = [uarg EXCEPT ![t] = kMinValue]
        /\ ucur' = [ucur EXCEPT ![t] = kMinValue]
        /\ fresh' = [fresh EXCEPT ![t] = FALSE]
     \/ \* it fails and leaves the value it found in current
        /\ value_ # ucur[t]
        /\ ucur' = [ucur EXCEPT ![t] = value_]
        /\ IF uarg[t] > value_
             THEN /\ upc' = upc
                  /\ UNCHANGED window
             ELSE /\ upc' = [upc EXCEPT ![t] = "ret"]
                  /\ TakesEffect(uarg[t])
        /\ UNCHANGED <<value_, uarg, doneAny, allBegan, fresh>>
  /\ UNCHANGED last
  /\ UNCHANGED <<regVars, pubVars, sendVars, encVars>>

\* update_max returns without a store: value > current is false
UpdateReturn(t) ==
  /\ upc[t] = "ret"
  /\ upc' = [upc EXCEPT ![t] = "idle"]
  /\ Completes(t, uarg[t])
  /\ uarg' = [uarg EXCEPT ![t] = kMinValue]
  /\ ucur' = [ucur EXCEPT ![t] = kMinValue]
  /\ fresh' = [fresh EXCEPT ![t] = FALSE]
  /\ UNCHANGED <<value_, window, last>>
  /\ UNCHANGED <<regVars, pubVars, sendVars, encVars>>

\* MaxGauge::Measure, called by the publisher's thread or any other
GaugeMeasure ==
  /\ LET r == MaxGaugeMeasure([id |-> GaugeId, value |-> value_])
     IN /\ value_' = r.value
        /\ last' = [taken |-> TRUE, out |-> r.out, done |-> Cardinality(doneAny),
                    straddled |-> ~allBegan]
  /\ window' = {}
  /\ doneAny' = {}
  /\ allBegan' = TRUE
  /\ fresh' = [t \in Threads |-> FALSE]
  /\ UNCHANGED <<upc, uarg, ucur>>
  /\ UNCHANGED <<regVars, pubVars, sendVars, encVars>>

----------------------------------------------------------------------------
(* Registry *)

\* Counter::Measure: count_.exchange(0); a measurement if the count is not 0
CounterMeasure(m) ==
  [out |-> IF m.value = 0 THEN <<>>
           ELSE <<[id |-> WithStat(m.id, "count"), value |-> m.value]>>,
   value |-> 0]

\* Meter::Measure, dispatched on the variant
MeterMeasure(m) == IF m.type = "MaxGauge" THEN MaxGaugeMeasure(m) ELSE CounterMeasure(m)

\* Meter::Update in one step. MaxGauge: what update_max leaves in value_ (the
\* loop itself is in SpecGauge); Counter: count_ += v
MeterUpdate(m, v) ==
  IF m.type = "MaxGauge"
    THEN [m EXCEPT !.value = IF v > m.value THEN v ELSE m.value]
    ELSE [m EXCEPT !.value = m.value + v]

Registered == {meters_[id] : id \in DOMAIN meters_}
FreeInsts == {i \in Insts : heap[i] = NoMeter}
Lowest(S) == CHOOSE x \in S : \A y \in S : x <= y

\* meters_[id] = meter: the entry is assigned whether or not the key is there
InsertOverwrite(map, id, inst) ==
  [x \in DOMAIN map \cup {id} |-> IF x = id THEN inst ELSE map[x]]

\* Registry::insert_if_needed: meters_.emplace(meter->MeterId(), meter) inserts
\* only when the key is absent; the map after the call
InsertIfNeeded(map, id, inst) ==
  IF id \in DOMAIN map THEN map
  ELSE [x \in DOMAIN map \cup {id} |-> IF x = id THEN inst ELSE map[x]]

\* log_type_error that logs nothing
LogNothing(errs, id, prev_type, attempted_type) == errs

\* Registry::log_type_error: one error line naming id, attempted and previous type
LogTypeError(errs, id, prev_type, attempted_type) ==
  errs \cup {<<id, prev_type, attempted_type>>}

\* GetCounter / GetMaxGauge -> create_and_register_as_needed<M>: make_shared<M>(id)
GetConstruct(t, id, type) ==
  /\ pc[t] = "idle"
  /\ FreeInsts # {}
  /\ LET n == Lowest(FreeInsts)
     IN /\ heap' = [heap EXCEPT ![n] = NewMeter(type, id)]
        /\ newm' = [newm EXCEPT ![t] = n]
  /\ pc' = [pc EXCEPT ![t] = "get_insert"]
  /\ idle' = [idle EXCEPT ![Lowest(FreeInsts)] = TRUE]
  /\ handle' = [handle EXCEPT ![t] = None]
  /\ outcome' = [outcome EXCEPT ![t] = "none"]
  /\ UNCHANGED <<meters_, mutexHeld, todo, res, typeErrors, snapIdle>>
  /\ UNCHANGED <<gaugeVars, pubVars, sendVars, encVars>>

\* create_and_register_as_needed after make_shared: meter_ptr =
\* insert_if_needed(new_meter_ptr), the emplace under meters_mutex; then the
\* variants are compared, a mismatch is logged and the registered meter is
\* returned; new_meter_ptr dies with the call unless it was inserted
GetInsert(t) ==
  /\ pc[t] = "get_insert"
  /\ ~mutexHeld
  /\ LET new == heap[newm[t]]
         map == InsertIfNeeded(meters_, new.id, newm[t])
         ret == map[new.id]
         old == heap[ret]
         bad == old.type # new.type
     IN /\ meters_' = map
        /\ typeErrors' = IF bad THEN LogTypeError(typeErrors, old.id, old.type, new.type)
                         ELSE typeErrors
        /\ outcome' = [outcome EXCEPT ![t] = IF bad THEN "mismatch"
                                             ELSE IF ret = newm[t] THEN "inserted"
                                             ELSE "existing"]
        /\ handle' = [handle EXCEPT ![t] = ret]
        /\ heap' = IF ret = newm[t] THEN heap ELSE [heap EXCEPT ![newm[t]] = NoMeter]
  /\ newm' = [newm EXCEPT ![t] = None]
  /\ pc' = [pc EXCEPT ![t] = "idle"]
  /\ UNCHANGED <<mutexHeld, todo, res, idle, snapIdle>>
  /\ UNCHANGED <<gaugeVars, pubVars, sendVars, encVars>>

\* the values a registered meter is updated with: a MaxGauge takes any double
\* (the sentinel among them), a Counter positive amounts
UpdateValues(type) == IF type = "MaxGauge" THEN {kMinValue} \cup 1 .. MaxCount
                      ELSE 1 .. MaxCount

\* Update(v) through the handle a GetX() returned
Update(t, v) ==
  /\ pc[t] = "idle" /\ handle[t] # None
  /\ v \in UpdateValues(heap[handle[t]].type)
  /\ heap[handle[t]].type = "Counter" => heap[handle[t]].value + v <= MaxCount
  /\ heap' = [heap EXCEPT ![handle[t]] = MeterUpdate(@, v)]
  /\ idle' = [idle EXCEPT ![handle[t]] = FALSE]
  /\ UNCHANGED <<meters_, mutexHeld, pc, handle, newm, todo, res, typeErrors,
                 outcome, snapIdle>>
  /\ UNCHANGED <<gaugeVars, pubVars, sendVars, encVars>>

\* Measure() through a handle
Measure(t) ==
  /\ pc[t] = "idle" /\ handle[t] # None
  /\ heap' = [heap EXCEPT ![handle[t]].value = MeterMeasure(heap[handle[t]]).value]
  /\ idle' = [idle EXCEPT ![handle[t]] = TRUE]
  /\ UNCHANGED <<meters_, mutexHeld, pc, handle, newm, todo, res, typeErrors,
                 outcome, snapIdle>>
  /\ UNCHANGED <<gaugeVars, pubVars, sendVars, encVars>>

\* Registry::Measurements: lock_guard lock{meters_mutex}
MeasurementsLock ==
  /\ ~mutexHeld
  /\ mutexHeld' = TRUE
  /\ todo' = DOMAIN meters_
  /\ res' = <<>>
  /\ snapIdle' = TRUE
  /\ UNCHANGED <<heap, meters_, pc, handle, newm, typeErrors, idle, outcome>>
  /\ UNCHANGED <<gaugeVars, pubVars, sendVars, encVars>>

\* Registry::Measurements: one turn of the loop over meters_, in the map's order
MeasurementsVisit ==
  /\ mutexHeld
  /\ \E id \in todo :
       LET i == meters_[id]
       IN /\ heap' = [heap EXCEPT ![i].value = MeterMeasure(heap[i]).value]
          /\ res' = res \o MeterMeasure(heap[i]).out
          /\ snapIdle' = (snapIdle /\ idle[i])
          /\ idle' = [idle EXCEPT ![i] = TRUE]
          /\ todo' = todo \ {id}
  /\ UNCHANGED <<meters_, mutexHeld, pc, handle, newm, typeErrors, outcome>>
  /\ UNCHANGED <<gaugeVars, pubVars, sendVars, encVars>>

\* Registry::Measurements: return res, the lock is released
MeasurementsReturn ==
  /\ mutexHeld
  /\ todo = {}
  /\ mutexHeld' = FALSE
  /\ res' = <<>>
  /\ UNCHANGED <<heap, meters_, pc, handle, newm, todo, typeErrors, idle,
                 outcome, snapIdle>>
  /\ UNCHANGED <<gaugeVars, pubVars, sendVars, encVars>>

----------------------------------------------------------------------------
(* Publisher *)

Callers == 1 .. NumCallers
kSendEveryMillis == 5000
\* duration_cast<milliseconds>(elapsed).count() of a cycle: a short and a long one
ElapsedMillis == {0, kSendEveryMillis}

StopBody == {"p_flag", "p_notify", "p_join", "p_joining", "p_shutdown"}

Returns(c) == cpc' = [cpc EXCEPT ![c] = "idle"]

\* Start(): if (!http_initialized): the read of the static flag
StartReadFlag(c) ==
  /\ ~fault /\ cpc[c] = "idle" /\ callsLeft[c] > 0
  /\ callsLeft' = [callsLeft EXCEPT ![c] = @ - 1]
  /\ cpc' = [cpc EXCEPT ![c] = IF http_initialized THEN "s_uri" ELSE "s_init"]
  /\ UNCHANGED <<uriEmpty, started_, should_stop_, sender_thread_, http_initialized,
                 worker, fault, log>>
  /\ initBy' = initBy \ {c}
  /\ UNCHANGED <<gaugeVars, regVars, cycle, sendVars, encVars>>

\* Start(): http_initialized = true; HttpClient::GlobalInit()
StartInit(c) ==
  /\ ~fault /\ cpc[c] = "s_init"
  /\ http_initialized' = TRUE
  /\ log' = [log EXCEPT !.inits = @ + 1]
  /\ cpc' = [cpc EXCEPT ![c] = "s_uri"]
  /\ UNCHANGED <<uriEmpty, started_, should_stop_, sender_thread_, worker, callsLeft,
                 fault>>
  /\ initBy' = initBy \cup {c}
  /\ UNCHANGED <<gaugeVars, regVars, cycle, sendVars, encVars>>

\* Start() that spawns without looking at started_
StartNoGuard(c) ==
  /\ ~fault /\ cpc[c] = "s_uri"
  /\ started_' = TRUE
  /\ cpc' = [cpc EXCEPT ![c] = "s_spawn"]
  /\ UNCHANGED <<uriEmpty, should_stop_, sender_thread_, http_initialized, worker,
                 callsLeft, fault, log>>
  /\ UNCHANGED <<gaugeVars, regVars, initBy, cycle, sendVars, encVars>>

\* Start(): if (cfg.uri.empty()) warn, return; if (started_.exchange(true)) warn, return
StartExchange(c) ==
  /\ ~fault /\ cpc[c] = "s_uri"
  /\ IF uriEmpty
       THEN /\ log' = [log EXCEPT !.warnNoUri = @ + 1, !.starts = @ + 1]
            /\ Returns(c)
            /\ UNCHANGED started_
       ELSE /\ started_' = TRUE
            /\ IF started_
                 THEN /\ log' = [log EXCEPT !.warnStarted = @ + 1, !.starts = @ + 1,
                                            !.warnAfterStop =
                                               IF log.shutdowns > 0 THEN @ + 1 ELSE @]
                      /\ Returns(c)
                 ELSE /\ cpc' = [cpc EXCEPT ![c] = "s_spawn"]
                      /\ UNCHANGED log
  /\ UNCHANGED <<uriEmpty, should_stop_, sender_thread_, http_initialized, worker,
                 callsLeft, fault>>
  /\ UNCHANGED <<gaugeVars, regVars, initBy, cycle, sendVars, encVars>>

\* Start(): sender_thread_ = std::thread(&Publisher::sender, this); the move
\* assignment to a joinable std::thread calls std::terminate
StartSpawn(c) ==
  /\ ~fault /\ cpc[c] = "s_spawn"
  /\ IF sender_thread_ = "joinable"
       THEN /\ fault' = TRUE
            /\ UNCHANGED <<sender_thread_, worker, log>>
       ELSE /\ sender_thread_' = "joinable"
            /\ worker' = "check"
            /\ log' = [log EXCEPT !.spawns = @ + 1, !.starts = @ + 1]
            /\ UNCHANGED fault
  /\ Returns(c)
  /\ UNCHANGED <<uriEmpty, started_, should_stop_, http_initialized, callsLeft>>
  /\ UNCHANGED <<gaugeVars, regVars, initBy, cycle, sendVars, encVars>>

\* Stop() without the started_ test
StopNoCheck(c) ==
  /\ ~fault /\ cpc[c] = "idle" /\ callsLeft[c] > 0
  /\ callsLeft' = [callsLeft EXCEPT ![c] = @ - 1]
  /\ cpc' = [cpc EXCEPT ![c] = "p_flag"]
  /\ UNCHANGED <<uriEmpty, started_, should_stop_, sender_thread_, http_initialized,
                 worker, fault, log>>
  /\ UNCHANGED <<gaugeVars, regVars, initBy, cycle, sendVars, encVars>>

\* Stop(): if (!started_) return
StopCheck(c) ==
  /\ ~fault /\ cpc[c] = "idle" /\ callsLeft[c] > 0
  /\ callsLeft' = [callsLeft EXCEPT ![c] = @ - 1]
  /\ IF ~started_
       THEN /\ Returns(c)
            /\ log' = [log EXCEPT !.noopStops = @ + 1]
       ELSE /\ cpc' = [cpc EXCEPT ![c] = "p_flag"]
            /\ UNCHANGED log
  /\ UNCHANGED <<uriEmpty, started_, should_stop_, sender_thread_, http_initialized,
                 worker, fault>>
  /\ UNCHANGED <<gaugeVars, regVars, initBy, cycle, sendVars, encVars>>

\* Stop(): should_stop_ = true
StopSetFlag(c) ==
  /\ ~fault /\ cpc[c] = "p_flag"
  /\ should_stop_' = TRUE
  /\ cpc' = [cpc EXCEPT ![c] = "p_notify"]
  /\ UNCHANGED <<uriEmpty, started_, sender_thread_, http_initialized, worker,
                 callsLeft, fault, log>>
  /\ UNCHANGED <<gaugeVars, regVars, initBy, cycle, sendVars, encVars>>

\* Stop(): cv_.notify_all(), which wakes the sender only if it is inside wait_for
StopNotify(c) ==
  /\ ~fault /\ cpc[c] = "p_notify"
  /\ worker' = IF worker = "wait" THEN "check" ELSE worker
  /\ cpc' = [cpc EXCEPT ![c] = "p_join"]
  /\ UNCHANGED <<uriEmpty, started_, should_stop_, sender_thread_, http_initialized,
                 callsLeft, fault, log>>
  /\ UNCHANGED <<gaugeVars, regVars, initBy, cycle, sendVars, encVars>>

\* Stop(): sender_thread_.join() is called. On a thread that is not joinable
\* (never spawned, or joined before) join() throws std::system_error, which
\* leaves Registry::Stop() noexcept: std::terminate
StopJoin(c) ==
  /\ ~fault /\ cpc[c] = "p_join"
  /\ IF sender_thread_ = "joinable"
       THEN /\ cpc' = [cpc EXCEPT ![c] = "p_joining"]
            /\ UNCHANGED fault
       ELSE /\ fault' = TRUE
            /\ UNCHANGED cpc
  /\ UNCHANGED <<uriEmpty, started_, should_stop_, sender_thread_, http_initialized,
                 worker, callsLeft, log>>
  /\ UNCHANGED <<gaugeVars, regVars, initBy, cycle, sendVars, encVars>>

\* Stop() whose join() returns without waiting for the sender to exit
StopJoinedNoWait(c) ==
  /\ ~fault /\ cpc[c] = "p_joining"
  /\ sender_thread_ = "joinable"
  /\ sender_thread_' = "joined"
  /\ log' = [log EXCEPT !.joins = @ + 1]
  /\ cpc' = [cpc EXCEPT ![c] = "p_shutdown"]
  /\ UNCHANGED <<uriEmpty, started_, should_stop_, http_initialized, worker, callsLeft,
                 fault>>
  /\ UNCHANGED <<gaugeVars, regVars, initBy, cycle, sendVars, encVars>>

\* Stop(): join() returns once the sender has exited. Two join() calls on one
\* std::thread at a time are a data race: the second either fails as on a
\* thread that is not joinable, or returns as well
StopJoined(c) ==
  /\ ~fault /\ cpc[c] = "p_joining"
  /\ worker = "exited"
  /\ \/ /\ sender_thread_ = "joinable"
        /\ sender_thread_' = "joined"
        /\ log' = [log EXCEPT !.joins = @ + 1]
        /\ cpc' = [cpc EXCEPT ![c] = "p_shutdown"]
        /\ UNCHANGED fault
     \/ /\ sender_thread_ # "joinable"
        /\ fault' = TRUE
        /\ UNCHANGED <<sender_thread_, log, cpc>>
     \/ /\ sender_thread_ # "joinable"
        /\ log' = [log EXCEPT !.joins = @ + 1]
        /\ cpc' = [cpc EXCEPT ![c] = "p_shutdown"]
        /\ UNCHANGED <<sender_thread_, fault>>
  /\ UNCHANGED <<uriEmpty, started_, should_stop_, http_initialized, worker, callsLeft>>
  /\ UNCHANGED <<gaugeVars, regVars, initBy, cycle, sendVars, encVars>>

\* Stop(): HttpClient::GlobalShutdown()
StopShutdown(c) ==
  /\ ~fault /\ cpc[c] = "p_shutdown"
  /\ log' = [log EXCEPT !.shutdowns = @ + 1]
  /\ Returns(c)
  /\ UNCHANGED <<uriEmpty, started_, should_stop_, sender_thread_, http_initialized,
                 worker, callsLeft, fault>>
  /\ UNCHANGED <<gaugeVars, regVars, initBy, cycle, sendVars, encVars>>

\* sender(): while (!should_stop_)
SenderCheck ==
  /\ ~fault /\ worker = "check"
  /\ worker' = IF should_stop_ THEN "exited" ELSE "send"
  /\ UNCHANGED <<uriEmpty, started_, should_stop_, sender_thread_, http_initialized,
                 cpc, callsLeft, fault, log>>
  /\ UNCHANGED <<gaugeVars, regVars, initBy, cycle, sendVars, encVars>>

\* what leaves send_metrics(): nothing (it returns), an exception of a class
\* derived from std::exception, or any other thrown object
CycleEnds == {"returns", "std::exception", "other"}

\* sender(): try { send_metrics(); } catch (std::exception& e) { log }
CatchStdException(e) ==
  CASE e = "returns" -> "returned"
    [] e = "std::exception" -> "caught"
    [] OTHER -> "uncaught"

\* sender(): one send cycle. What the handler does not catch leaves sender(),
\* which is noexcept: std::terminate
SenderSend ==
  /\ ~fault /\ worker = "send"
  /\ \E e \in CycleEnds :
       /\ cycle' = CatchStdException(e)
       /\ IF cycle' = "uncaught"
            THEN fault' = TRUE /\ UNCHANGED worker
            ELSE worker' = "elapsed" /\ UNCHANGED fault
  /\ UNCHANGED <<uriEmpty, started_, should_stop_, sender_thread_, http_initialized,
                 cpc, callsLeft, log>>
  /\ UNCHANGED <<gaugeVars, regVars, initBy, sendVars, encVars>>

\* sender(): if (millis < kSendEveryMillis) cv_.wait_for(lock, sleep)
SenderSleep ==
  /\ ~fault /\ worker = "elapsed"
  /\ \E millis \in ElapsedMillis :
       worker' = IF millis < kSendEveryMillis THEN "wait" ELSE "check"
  /\ UNCHANGED <<uriEmpty, started_, should_stop_, sender_thread_, http_initialized,
                 cpc, callsLeft, fault, log>>
  /\ cycle' = "none"
  /\ UNCHANGED <<gaugeVars, regVars, initBy, sendVars, encVars>>

\* sender(): wait_for returns because the time is over (or spuriously)
SenderTimeout ==
  /\ ~fault /\ worker = "wait"
  /\ worker' = "check"
  /\ UNCHANGED <<uriEmpty, started_, should_stop_, sender_thread_, http_initialized,
                 cpc, callsLeft, fault, log>>
  /\ UNCHANGED <<gaugeVars, regVars, initBy, cycle, sendVars, encVars>>

----------------------------------------------------------------------------
(* Publisher::send_metrics *)

\* the configured values: 0 stands for a timeout that was not set
Timeouts == 0 .. MaxTimeout
BatchSizes == 0 .. MaxBatchSize
Configs == [read_timeout : Timeouts, connect_timeout : Timeouts, batch_size : BatchSizes]
\* the statuses HttpClient::PostBatches reports
HttpCodes == {200, 400, 503}
NoClient == [connect_timeout |-> 0, read_timeout |-> 0]
\* the batches the model lets the partition loop make before it stops following it
MaxBatches == MaxPending + 1

\* a || b on two ints: true when one of them is not zero
LogicalOr(a, b) == (a # 0) \/ (b # 0)
\* the bool given for an int parameter
ToInt(b) == IF b THEN 1 ELSE 0
\* std::min
Min(a, b) == IF b < a THEN b ELSE a

\* std::to_string of a status code
to_string(status_code) ==
  CASE status_code = 200 -> "200"
    [] status_code = 400 -> "400"
    [] status_code = 503 -> "503"

SentId == [name |-> "spectator.measurementsSent", tags |-> {}]
ErrId(status_code) ==
  [name |-> "spectator.measurementsErr",
   tags |-> {<<"error", "httpError">>, <<"statusCode", to_string(status_code)>>}]
SelfIds == {SentId} \cup {ErrId(c) : c \in HttpCodes}

\* registry_->GetCounter(id)->Add(n)
CounterAdd(counters, id, n) == [counters EXCEPT ![id] = @ + n]
update_sent(counters, num_sent) == CounterAdd(counters, SentId, num_sent)
\* an error accounting that counts the batch as sent
CountAsSent(counters, status_code, num_not_sent) ==
  CounterAdd(counters, SentId, num_not_sent)
update_http_err(counters, status_code, num_not_sent) ==
  CounterAdd(counters, ErrId(status_code), num_not_sent)

\* send_metrics(): read_timeout = cfg.read_timeout || 2; connect_timeout =
\* cfg.connect_timeout || 1; HttpClient client{registry_, connect_timeout, read_timeout}
SendClient ==
  /\ spc = "client"
  /\ LET read_timeout == LogicalOr(cfg.read_timeout, 2)
         connect_timeout == LogicalOr(cfg.connect_timeout, 1)
     IN client' = [connect_timeout |-> ToInt(connect_timeout),
                   read_timeout |-> ToInt(read_timeout)]
  /\ spc' = "snapshot"
  /\ UNCHANGED <<cfg, pending, measurements, from, batches, batch_sizes, http_codes, ix,
                 selfCounters>>
  /\ UNCHANGED <<gaugeVars, regVars, pubVars, encVars>>

\* send_metrics(): measurements = registry_->Measurements(); from = begin()
SendSnapshot ==
  /\ spc = "snapshot"
  /\ measurements' = [k \in 1 .. pending |-> k]
  /\ from' = 0
  /\ spc' = "loop"
  /\ UNCHANGED <<cfg, pending, client, batches, batch_sizes, http_codes, ix, selfCounters>>
  /\ UNCHANGED <<gaugeVars, regVars, pubVars, encVars>>

\* a partition loop that makes batches of one measurement
SendBatchOneByOne ==
  /\ spc = "loop"
  /\ from # Len(measurements)
  /\ Len(batches) < MaxBatches
  /\ batches' = Append(batches, SubSeq(measurements, from + 1, from + 1))
  /\ batch_sizes' = Append(batch_sizes, 1)
  /\ from' = from + 1
  /\ UNCHANGED <<cfg, pending, spc, client, measurements, http_codes, ix, selfCounters>>
  /\ UNCHANGED <<gaugeVars, regVars, pubVars, encVars>>

\* send_metrics(): one turn of while (from != end)
SendBatch ==
  /\ spc = "loop"
  /\ from # Len(measurements)
  /\ Len(batches) < MaxBatches
  /\ LET to_end == Len(measurements) - from
         to_advance == Min(cfg.batch_size, to_end)
         to == from + to_advance
         added == to - from
     IN /\ batches' = Append(batches, SubSeq(measurements, from + 1, to))
        /\ batch_sizes' = Append(batch_sizes, added)
        /\ from' = to
  /\ UNCHANGED <<cfg, pending, spc, client, measurements, http_codes, ix, selfCounters>>
  /\ UNCHANGED <<gaugeVars, regVars, pubVars, encVars>>

\* send_metrics(): the loop is left; http_codes = client.PostBatches(cfg.uri,
\* batches), one status for each batch
SendPost ==
  /\ spc = "loop"
  /\ from = Len(measurements)
  /\ \E codes \in [1 .. Len(batches) -> HttpCodes] : http_codes' = codes
  /\ ix' = 0
  /\ spc' = "account"
  /\ UNCHANGED <<cfg, pending, client, measurements, from, batches, batch_sizes,
                 selfCounters>>
  /\ UNCHANGED <<gaugeVars, regVars, pubVars, encVars>>

\* send_metrics(): one turn of for (i = 0; i < http_codes.size(); ++i)
SendAccount ==
  /\ spc = "account"
  /\ ix < Len(http_codes)
  /\ LET http_code == http_codes[ix + 1]
         num_measurements == batch_sizes[ix + 1]
     IN selfCounters' = IF http_code # 200
                          THEN update_http_err(selfCounters, http_code, num_measurements)
                          ELSE update_sent(selfCounters, num_measurements)
  /\ ix' = ix + 1
  /\ UNCHANGED <<cfg, pending, spc, client, measurements, from, batches, batch_sizes,
                 http_codes>>
  /\ UNCHANGED <<gaugeVars, regVars, pubVars, encVars>>

\* send_metrics() returns
SendReturn ==
  /\ spc = "account"
  /\ ix >= Len(http_codes)
  /\ spc' = "done"
  /\ UNCHANGED <<cfg, pending, client, measurements, from, batches, batch_sizes,
                 http_codes, ix, selfCounters>>
  /\ UNCHANGED <<gaugeVars, regVars, pubVars, encVars>>

\* send_metrics() is entered: nothing built yet, the self counters at 0
SendEntered ==
  /\ spc = "client"
  /\ client = NoClient
  /\ measurements = <<>>
  /\ from = 0
  /\ batches = <<>>
  /\ batch_sizes = <<>>
  /\ http_codes = <<>>
  /\ ix = 0
  /\ selfCounters = [id \in SelfIds |-> 0]

\* no send cycle is looked at
NoSendCycle ==
  /\ SendEntered
  /\ cfg = [read_timeout |-> 0, connect_timeout |-> 0, batch_size |-> 0]
  /\ pending = 0

----------------------------------------------------------------------------
(* Publisher: the batch encoder *)

\* the strings of the model in the order of std::string's operator<
StrOrder == <<"app", "bogus", "count", "max", "name", "node", "queueSize", "requests",
              "statistic", "web">>
Rank(s) == CHOOSE k \in 1 .. Len(StrOrder) : StrOrder[k] = s
\* a < b on two std::string
Less(a, b) == Rank(a) < Rank(b)

RECURSIVE SortDescending(_)
\* a sort that leaves the strings in descending order
SortDescending(S) ==
  IF S = {} THEN <<>>
  ELSE LET m == CHOOSE x \in S : \A y \in S \ {x} : Less(y, x)
       IN <<m>> \o SortDescending(S \ {m})

RECURSIVE Sort(_)
\* std::sort of the strings of S: the sequence in ascending order
Sort(S) ==
  IF S = {} THEN <<>>
  ELSE LET m == CHOOSE x \in S : \A y \in S \ {x} : Less(x, y)
       IN <<m>> \o Sort(S \ {m})

RECURSIVE TagSeq(_)
\* for (const auto& tag : tags): the tags one after the other, here by key
TagSeq(tags) ==
  IF tags = {} THEN <<>>
  ELSE LET t == CHOOSE x \in tags : \A y \in tags \ {x} : Less(x[1], y[1])
       IN <<t>> \o TagSeq(tags \ {t})

\* rapidjson values: a number, a string
Num(n) == [num |-> n]
Str(s) == [str |-> s]

\* the strings of a set of tags: tag.first and tag.second
TagStrings(tags) == {t[1] : t \in tags} \cup {t[2] : t \in tags}

\* build_str_table: the table of string -> index and the head of the payload
build_str_table(common, ms) ==
  LET keys == TagStrings(common) \cup {"name"}
                \cup {ms[k].id.name : k \in 1 .. Len(ms)}
                \cup UNION {TagStrings(ms[k].id.tags) : k \in 1 .. Len(ms)}
      sorted_strings == Sort(keys)
  IN [strings |-> [s \in keys |->
                     (CHOOSE k \in 1 .. Len(sorted_strings) : sorted_strings[k] = s) - 1],
      payload |-> <<Num(Cardinality(keys))>>
                    \o [k \in 1 .. Len(sorted_strings) |-> Str(sorted_strings[k])]]

\* enum class Op
OpUnknown == -1
OpAdd == 0
OpMax == 10

\* Tags::at: the value of the tag, the empty string when there is none
At(tags, key) ==
  IF \E t \in tags : t[1] = key THEN (CHOOSE t \in tags : t[1] = key)[2] ELSE ""

\* an op_from_tags that answers Add for every measurement
OpAlwaysAdd(tags) == OpAdd

\* op_from_tags
op_from_tags(tags) ==
  LET stat == At(tags, "statistic")
  IN IF stat \in {"count", "totalAmount", "totalTime", "totalOfSquares", "percentile"}
       THEN OpAdd
     ELSE IF stat \in {"max", "gauge", "activeTasks", "duration"}
       THEN OpMax
     ELSE OpUnknown

RECURSIVE PushTags(_, _)
PushTags(table, tagseq) ==
  IF tagseq = <<>> THEN <<>>
  ELSE <<Num(table[Head(tagseq)[1]]), Num(table[Head(tagseq)[2]])>>
         \o PushTags(table, Tail(tagseq))

\* add_tags: the key index and the value index of each tag
add_tags(table, tags) == PushTags(table, TagSeq(tags))

\* append_measurement: what it pushes onto the payload
append_measurement(table, common, m) ==
  LET op == op_from_tags(m.id.tags)
  IN IF op # OpUnknown
       THEN LET total_tags == Cardinality(m.id.tags) + 1 + Cardinality(common)
                name_idx == table["name"]
                name_value_idx == table[m.id.name]
            IN <<Num(total_tags)>> \o add_tags(table, common) \o add_tags(table, m.id.tags)
                 \o <<Num(name_idx), Num(name_value_idx), Num(op), Num(m.value)>>
       ELSE <<>>

RECURSIVE AppendAll(_, _, _)
AppendAll(table, common, ms) ==
  IF ms = <<>> THEN <<>>
  ELSE append_measurement(table, common, Head(ms)) \o AppendAll(table, common, Tail(ms))

\* measurements_to_json: the payload, the table it was built with, *added
measurements_to_json(common, ms) ==
  LET t == build_str_table(common, ms)
  IN [payload |-> t.payload \o AppendAll(t.strings, common, ms),
      strings |-> t.strings,
      added |-> Len(ms)]

\* the measurements and common tags the encoder is called with
EncIds ==
  {WithStat(MkId("requests"), "count"),
   WithStat(MkId("queueSize"), "max"),
   WithStat([name |-> "requests", tags |-> {<<"node", "web">>}], "count"),
   WithStat(MkId("queueSize"), "bogus"),
   MkId("requests")}
EncMeasurements == [id : EncIds, value : {1, 2}]
Batches == UNION {[1 .. n -> EncMeasurements] : n \in 0 .. MaxBatchLen}
CommonTagSets == {{}, {<<"app", "web">>}, {<<"app", "web">>, <<"node", "requests">>}}

\* measurements_to_json(first, last, &added) is called and returns
Encode ==
  /\ epc = "call"
  /\ LET r == measurements_to_json(common_tags, batch)
     IN /\ payload' = r.payload
        /\ strings' = r.strings
        /\ num_added' = r.added
  /\ epc' = "ret"
  /\ UNCHANGED <<common_tags, batch>>
  /\ UNCHANGED <<gaugeVars, regVars, pubVars, sendVars>>

\* nothing encoded yet
EncodeCalled ==
  /\ epc = "call"
  /\ payload = <<>>
  /\ strings = <<>>
  /\ num_added = 0

\* no encoding is looked at
NoEncoding ==
  /\ EncodeCalled
  /\ common_tags = {}
  /\ batch = <<>>

----------------------------------------------------------------------------
(* Initial states *)

\* MaxGauge::MaxGauge, no thread in Update()
GaugeConstructed ==
  /\ value_ = NewMaxGauge(GaugeId).value
  /\ upc = [t \in Threads |-> "idle"]
  /\ uarg = [t \in Threads |-> kMinValue]
  /\ ucur = [t \in Threads |-> kMinValue]
  /\ window = {}
  /\ doneAny = {}
  /\ fresh = [t \in Threads |-> FALSE]
  /\ allBegan = TRUE
  /\ last = [taken |-> FALSE, out |-> <<>>, done |-> 0, straddled |-> FALSE]

\* Registry::Registry: no meter
RegistryConstructed ==
  /\ heap = [i \in Insts |-> NoMeter]
  /\ meters_ = <<>>
  /\ mutexHeld = FALSE
  /\ pc = [t \in Threads |-> "idle"]
  /\ handle = [t \in Threads |-> None]
  /\ newm = [t \in Threads |-> None]
  /\ todo = {}
  /\ res = <<>>
  /\ typeErrors = {}
  /\ idle = [i \in Insts |-> TRUE]
  /\ outcome = [t \in Threads |-> "none"]
  /\ snapIdle = TRUE

\* Publisher::Publisher: started_{false}, should_stop_{false}; no caller yet
PublisherConstructed ==
  /\ started_ = FALSE
  /\ should_stop_ = FALSE
  /\ sender_thread_ = "none"
  /\ http_initialized = FALSE
  /\ worker = "none"
  /\ cpc = [c \in 1 .. NumCallers |-> "idle"]
  /\ fault = FALSE
  /\ initBy = {}
  /\ cycle = "none"
  /\ log = [warnNoUri |-> 0, warnStarted |-> 0, spawns |-> 0, inits |-> 0,
            shutdowns |-> 0, joins |-> 0, starts |-> 0, noopStops |-> 0,
            warnAfterStop |-> 0]

InitGauge ==
  /\ GaugeConstructed
  /\ RegistryConstructed
  /\ PublisherConstructed /\ uriEmpty = FALSE /\ callsLeft = [c \in 1 .. NumCallers |-> 0]
  /\ NoSendCycle
  /\ NoEncoding

NextGauge ==
  \/ \E t \in Threads :
       \/ \E v \in Values : UpdateLoad(t, v)
       \/ UpdateCas(t)
       \/ UpdateReturn(t)
  \/ GaugeMeasure

SpecGauge == InitGauge /\ [][NextGauge]_vars

InitRegistry == InitGauge

NextRegistry ==
  \/ \E t \in Threads :
       \/ \E id \in Ids, type \in MeterTypes : GetConstruct(t, id, type)
       \/ GetInsert(t)
       \/ \E v \in kMinValue .. MaxCount : Update(t, v)
       \/ Measure(t)
  \/ MeasurementsLock
  \/ MeasurementsVisit
  \/ MeasurementsReturn

SpecRegistry == InitRegistry /\ [][NextRegistry]_vars

\* a Publisher of a Registry whose configuration has an endpoint or has none
InitPublisher ==
  /\ GaugeConstructed
  /\ RegistryConstructed
  /\ PublisherConstructed
  /\ uriEmpty \in BOOLEAN
  /\ callsLeft = [c \in Callers |-> MaxCalls]
  /\ NoSendCycle
  /\ NoEncoding

NextPublisher ==
  \/ \E c \in Callers :
       \/ StartReadFlag(c)
       \/ StartInit(c)
       \/ StartExchange(c)
       \/ StartSpawn(c)
       \/ StopCheck(c)
       \/ StopSetFlag(c)
       \/ StopNotify(c)
       \/ StopJoin(c)
       \/ StopJoined(c)
       \/ StopShutdown(c)
  \/ SenderCheck
  \/ SenderSend
  \/ SenderSleep
  \/ SenderTimeout

SpecPublisher == InitPublisher /\ [][NextPublisher]_vars

\* one send cycle, for every configuration and every size of the snapshot
InitSend ==
  /\ GaugeConstructed
  /\ RegistryConstructed
  /\ PublisherConstructed /\ uriEmpty = FALSE /\ callsLeft = [c \in 1 .. NumCallers |-> 0]
  /\ SendEntered
  /\ cfg \in Configs
  /\ pending \in 0 .. MaxPending
  /\ NoEncoding

NextSend ==
  \/ SendClient
  \/ SendSnapshot
  \/ SendBatch
  \/ SendPost
  \/ SendAccount
  \/ SendReturn

SpecSend == InitSend /\ [][NextSend]_vars

\* one call of the encoder, for every batch and every set of common tags
InitEncode ==
  /\ GaugeConstructed
  /\ RegistryConstructed
  /\ PublisherConstructed /\ uriEmpty = FALSE /\ callsLeft = [c \in 1 .. NumCallers |-> 0]
  /\ NoSendCycle
  /\ EncodeCalled
  /\ common_tags \in CommonTagSets
  /\ batch \in Batches

NextEncode == Encode

SpecEncode == InitEncode /\ [][NextEncode]_vars

----------------------------------------------------------------------------
(* MaxGauge: claims *)

\* what a Measure() reports for a set of updates: nothing when none of them is
\* above the sentinel, else their maximum under the identity with statistic=max
Reported(S) ==
  IF SetMax(S \cup {kMinValue}) = kMinValue THEN <<>>
  ELSE <<[id |-> WithStat(GaugeId, "max"), value |-> SetMax(S)]>>

\* C1: under every interleaving of the Update() loops with Measure(), every
\* update takes effect in exactly one extraction window. value_ is at any time
\* the maximum of the updates that took effect since the last Measure() (none is
\* lost); a Measure() reports exactly that maximum and leaves the sentinel, so
\* that no update of its window reaches the next Measure() (none is counted twice).
C1_ExactlyOneWindow ==
  /\ [](value_ = SetMax(window \cup {kMinValue}))
  /\ [][GaugeMeasure => /\ last'.out = Reported(window)
                        /\ value_' = kMinValue]_vars

\* C1, its case: a Measure() has reported a value while an Update() that began
\* before it is still in its loop, and another update took effect since
C1_Witness ==
  /\ last.taken /\ last.out # <<>>
  /\ \E t \in Threads : upc[t] = "loop" /\ ~fresh[t]
  /\ window # {}

----------------------------------------------------------------------------
(* Registry: claims *)

Live == {i \in Insts : heap[i] # NoMeter}

\* C3: a Measure() on a meter that got no Update() since its construction or its
\* last Measure() returns the empty sequence, and a Measurements() that found
\* every meter idle has collected nothing (its result is empty)
C3_IdleEmitsNothing ==
  /\ \A i \in Live : idle[i] => MeterMeasure(heap[i]).out = <<>>
  /\ (mutexHeld /\ snapIdle) => res = <<>>

\* C3, its case: Measurements() has visited every meter of a registry that holds
\* a MaxGauge and a Counter, found them idle and is about to return nothing
C3_Witness ==
  /\ mutexHeld /\ todo = {} /\ snapIdle /\ res = <<>>
  /\ {heap[i].type : i \in Registered} = MeterTypes

\* C4: the map holds one meter per identity, each under its own identity; an
\* entry is never replaced or removed; every caller of GetX(id) holds the
\* instance registered for id, which is the one inserted first
C4_OneMeterPerIdentity ==
  /\ [](\A id \in DOMAIN meters_ : meters_[id] \in Live /\ heap[meters_[id]].id = id)
  /\ [](\A id1, id2 \in DOMAIN meters_ : meters_[id1] = meters_[id2] => id1 = id2)
  /\ [](\A t \in Threads : handle[t] # None =>
          /\ handle[t] \in Live
          /\ heap[handle[t]].id \in DOMAIN meters_
          /\ meters_[heap[handle[t]].id] = handle[t])
  /\ [][\A id \in DOMAIN meters_ :
          id \in DOMAIN meters_' /\ meters_'[id] = meters_[id]]_vars

\* C4, its case: one caller inserted a meter, another caller asked for the same
\* identity and variant, and both hold the same instance
C4_Witness ==
  \E t, u \in Threads :
    /\ outcome[t] = "inserted" /\ outcome[u] = "existing"
    /\ handle[t] = handle[u]

----------------------------------------------------------------------------
(* Publisher: claims *)

Spawning == {c \in Callers : cpc[c] = "s_spawn"}

C7_EmptyEndpointNoOp ==
  uriEmpty =>
    /\ log.starts = log.warnNoUri
    /\ started_ = FALSE /\ should_stop_ = FALSE
    /\ sender_thread_ = "none" /\ worker = "none"
    /\ log.spawns = 0 /\ log.shutdowns = 0
    /\ http_initialized = FALSE /\ log.inits = 0

\* C8: while the publisher was never started, no Stop() has set the stop flag,
\* joined a thread or shut the transport down, and none is past its first test;
\* the Stop() that returns at the test changes nothing; the stop flag being
\* clear, the sender a later Start() spawns does not exit
C8_StopBeforeStartNoOp ==
  /\ [](~started_ =>
          /\ should_stop_ = FALSE /\ log.joins = 0 /\ log.shutdowns = 0 /\ ~fault
          /\ \A c \in Callers : cpc[c] \notin StopBody)
  /\ [][log'.noopStops # log.noopStops =>
          /\ ~started_
          /\ UNCHANGED <<started_, should_stop_, sender_thread_, http_initialized,
                         worker, fault, cpc>>]_vars
  /\ [](should_stop_ = FALSE => worker # "exited")

\* C8, its case: a Stop() returned at its test, then a Start() spawned the
\* sender, which is in a send cycle
C8_Witness ==
  /\ log.noopStops >= 1 /\ log.spawns = 1
  /\ should_stop_ = FALSE /\ worker = "send"

\* C9 as stated: on a publisher whose sender was spawned, all Stop() calls
\* complete without fault, the sender is joined once and the transport is shut
\* down as after a single Stop()
C9_StopIdempotent ==
  (sender_thread_ # "none" /\ cycle # "uncaught") =>
    (~fault /\ log.joins <= 1 /\ log.shutdowns <= 1)

\* C10 as stated: once a Stop() has set the flag and called notify_all, the
\* sender is not in its interval sleep (it was woken, or it exits after its
\* cycle), and it starts no further send cycle
C10_StopNotDelayedBySleep ==
  (\E c \in Callers : cpc[c] \in {"p_join", "p_joining"}) => worker # "wait"

\* C11: a Stop() that went past its started_ test returns only once the sender
\* thread has exited, and only through GlobalShutdown(); GlobalShutdown() is
\* reached only after the join, with the sender exited, so never during a send
\* cycle; the sender is not spawned again afterwards
C11_StopAfterWorkerExit ==
  /\ [](\A c \in Callers : cpc[c] = "p_shutdown" => worker = "exited")
  /\ [](log.shutdowns > 0 => (worker = "exited" /\ log.joins > 0))
  /\ [][\A c \in Callers :
          (cpc[c] \in StopBody /\ cpc'[c] = "idle") =>
            /\ worker = "exited"
            /\ log'.shutdowns = log.shutdowns + 1]_vars

\* C11, its case: a Stop() on a running publisher has joined the sender, shut the
\* transport down and returned
C11_Witness ==
  /\ log.spawns = 1 /\ log.joins = 1 /\ log.shutdowns = 1
  /\ worker = "exited" /\ ~fault
  /\ \A c \in Callers : cpc[c] = "idle"

\* C12 as stated: whatever Start() calls are made, HttpClient::GlobalInit() is
\* called at most once
C12_GlobalInitOnce ==
  log.inits <= 1

\* C13 as stated: whatever a send cycle throws is caught and logged by sender(),
\* none leaves it; after a cycle that threw the sender goes on to the interval
\* wait and the loop test, and it leaves the loop only at a test that finds the
\* stop flag set
C13_CycleFaultContained ==
  /\ [](cycle # "uncaught")
  /\ [][(worker = "send" /\ cycle' = "caught") => (worker' = "elapsed" /\ ~fault')]_vars
  /\ [][(worker # "exited" /\ worker' = "exited") =>
          (worker = "check" /\ should_stop_)]_vars

----------------------------------------------------------------------------
(* Publisher::send_metrics: claims *)

RECURSIVE Concat(_)
\* the batches laid end to end
Concat(bs) == IF bs = <<>> THEN <<>> ELSE Head(bs) \o Concat(Tail(bs))

\* ceil(n / b) for b >= 1
CeilDiv(n, b) == (n + b - 1) \div b

RECURSIVE SumOver(_, _)
\* the sum of f over the set S
SumOver(f, S) ==
  IF S = {} THEN 0
  ELSE LET x == CHOOSE y \in S : TRUE IN f[x] + SumOver(f, S \ {x})

\* C14: with a batch size B >= 1, the partition loop has at any time cut the
\* first `from` measurements of the snapshot into consecutive batches in snapshot
\* order; when it is left, the N measurements are in ceil(N/B) batches, each of
\* B measurements except the last, which has between 1 and B, and the batches
\* laid end to end are the snapshot: each measurement is in exactly one batch
C14_Batching ==
  (cfg.batch_size >= 1 /\ spc \in {"loop", "account", "done"}) =>
    /\ Concat(batches) = SubSeq(measurements, 1, from)
    /\ \A k \in 1 .. Len(batches) :
         /\ batch_sizes[k] = Len(batches[k])
         /\ Len(batches[k]) >= 1 /\ Len(batches[k]) <= cfg.batch_size
         /\ (k < Len(batches) => Len(batches[k]) = cfg.batch_size)
    /\ (spc # "loop" =>
          /\ from = Len(measurements)
          /\ Len(batches) = CeilDiv(Len(measurements), cfg.batch_size))

\* C14, its case: a snapshot of three measurements was cut with batch size 2 into
\* a batch of two and a last batch of one
C14_Witness ==
  /\ spc = "done" /\ cfg.batch_size = 2 /\ Len(measurements) = 3
  /\ batches = <<(<<1, 2>>), (<<3>>)>>

\* C15: each turn of the accounting loop adds the size of its batch to one self
\* counter and leaves the others alone: measurementsSent for status 200, else
\* measurementsErr with error=httpError and statusCode=<status>; the loop goes
\* through every batch whatever the statuses, so that at the end of the cycle
\* the counts add up to the size of the snapshot
C15_OutcomeAccounting ==
  /\ [][(spc = "account" /\ ix' # ix) =>
          LET status == http_codes[ix + 1]
              id == IF status = 200 THEN SentId
                    ELSE [name |-> "spectator.measurementsErr",
                          tags |-> {<<"error", "httpError">>,
                                    <<"statusCode", to_string(status)>>}]
          IN /\ ix' = ix + 1
             /\ selfCounters' = [selfCounters EXCEPT ![id] = @ + Len(batches[ix + 1])]]_vars
  /\ [](spc = "account" => Len(http_codes) = Len(batches))
  /\ [](spc = "done" =>
          /\ ix = Len(batches)
          /\ SumOver(selfCounters, SelfIds) = Len(measurements))

\* C15, its case: a cycle of three batches whose first got 503, the others 200,
\* has counted the first as an error with that status and the others as sent
C15_Witness ==
  /\ spc = "done" /\ Len(batches) = 3
  /\ http_codes = <<503, 200, 200>>
  /\ selfCounters[ErrId(503)] = Len(batches[1])
  /\ selfCounters[SentId] = Len(batches[2]) + Len(batches[3])
  /\ selfCounters[ErrId(400)] = 0

\* C19 as stated: the client is built with the configured connect timeout, 1
\* when none is set, and the configured read timeout, 2 when none is set
C19_TransportTimeouts ==
  spc # "client" =>
    /\ client.connect_timeout =
         (IF cfg.connect_timeout = 0 THEN 1 ELSE cfg.connect_timeout)
    /\ client.read_timeout =
         (IF cfg.read_timeout = 0 THEN 2 ELSE cfg.read_timeout)

\* C20 as stated: for every size of the snapshot and every batch size, each turn
\* of the partition loop moves `from` towards the end, so that the loop makes no
\* more batches than there are measurements and is left
C20_PartitionTerminates ==
  /\ [][(spc = "loop" /\ batches' # batches) => from' > from]_vars
  /\ [](Len(batches) <= pending)

----------------------------------------------------------------------------
(* Publisher, the batch encoder: claims *)

\* the strings a batch refers to: the keys and values of the common tags, the
\* literal "name", the name of each identity, each of its tag keys and values
Referenced(common, ms) ==
  {"name"} \cup {t[1] : t \in common} \cup {t[2] : t \in common}
    \cup {ms[k].id.name : k \in 1 .. Len(ms)}
    \cup {t[1] : t \in UNION {ms[k].id.tags : k \in 1 .. Len(ms)}}
    \cup {t[2] : t \in UNION {ms[k].id.tags : k \in 1 .. Len(ms)}}

\* C16: the payload starts with the count and then count strings; the strings
\* are exactly those the batch refers to, each once, in ascending order; the
\* index the table gives a string is its position in that order
C16_StringTable ==
  epc = "ret" =>
    LET refs == Referenced(common_tags, batch)
        count == payload[1].num
    IN /\ count = Cardinality(refs)
       /\ Len(payload) >= count + 1
       /\ \A k \in 1 .. count : DOMAIN payload[k + 1] = {"str"}
       /\ {payload[k + 1].str : k \in 1 .. count} = refs
       /\ \A k \in 1 .. count - 1 : Less(payload[k + 1].str, payload[k + 2].str)
       /\ DOMAIN strings = refs
       /\ \A s \in refs : strings[s] \in 0 .. count - 1 /\ payload[strings[s] + 2].str = s

\* C16, its case: a batch of two measurements that share strings with each other
\* and with the common tags has been encoded
C16_Witness ==
  /\ epc = "ret" /\ Len(batch) = 2 /\ batch[1].id # batch[2].id
  /\ batch[1].id.name = "requests" /\ <<"node", "requests">> \in common_tags
  /\ payload[1].num = 8

\* the statistics of the two operations, and their codes
AddStatistics == {"count", "totalAmount", "totalTime", "totalOfSquares", "percentile"}
MaxStatistics == {"max", "gauge", "activeTasks", "duration"}
Statistic(m) == {t[2] : t \in {x \in m.id.tags : x[1] = "statistic"}}
Recognized(m) == Statistic(m) \cap (AddStatistics \cup MaxStatistics) # {}
OpCode(m) == IF Statistic(m) \cap AddStatistics # {} THEN 0 ELSE 10

\* reading a payload back: the strings of its table by index
TableOf(p) == [k \in 0 .. p[1].num - 1 |-> p[k + 2].str]
\* the numbers after the table
BodyOf(p) == [k \in 1 .. Len(p) - p[1].num - 1 |-> p[k + p[1].num + 1].num]

RECURSIVE DecodeRecords(_, _)
\* the records of a body: tagCount pairs of strings, the op code, the value
DecodeRecords(table, nums) ==
  IF nums = <<>> THEN <<>>
  ELSE LET n == nums[1]
       IN <<[pairs |-> [k \in 1 .. n |-> <<table[nums[2 * k]], table[nums[2 * k + 1]]>>],
             op |-> nums[2 * n + 2],
             value |-> nums[2 * n + 3]]>>
            \o DecodeRecords(table, SubSeq(nums, 2 * n + 4, Len(nums)))

Decode(p) == DecodeRecords(TableOf(p), BodyOf(p))

RECURSIVE IndexesOf(_)
\* the string indexes a body holds
IndexesOf(nums) ==
  IF nums = <<>> THEN {}
  ELSE {nums[j] : j \in 2 .. 2 * nums[1] + 1}
         \cup IndexesOf(SubSeq(nums, 2 * nums[1] + 4, Len(nums)))

\* C17: for a batch whose measurements all have a recognized statistic, the
\* payload read back through its string table has one record for each
\* measurement, in order: tagCount = |identity tags| + 1 + |common tags| pairs,
\* which are the common tags, then the identity's tags, then ("name", its name),
\* then op code 0 for an Add statistic and 10 for a Max statistic, then the
\* value; every index emitted is an index of the table
C17_EncodingRoundTrip ==
  (epc = "ret" /\ \A k \in 1 .. Len(batch) : Recognized(batch[k])) =>
    LET count == payload[1].num
        body == BodyOf(payload)
        recs == Decode(payload)
        nc == Cardinality(common_tags)
    IN /\ IndexesOf(body) \subseteq 0 .. count - 1
       /\ Len(recs) = Len(batch)
       /\ \A k \in 1 .. Len(batch) :
            LET m == batch[k]
                r == recs[k]
                n == Len(r.pairs)
            IN /\ n = Cardinality(m.id.tags) + 1 + nc
               /\ {r.pairs[j] : j \in 1 .. nc} = common_tags
               /\ {r.pairs[j] : j \in nc + 1 .. n - 1} = m.id.tags
               /\ r.pairs[n] = <<"name", m.id.name>>
               /\ r.op = OpCode(m)
               /\ r.value = m.value
       /\ Len(body) = Len(batch) * (2 * nc + 5)
                        + 2 * SumOver([k \in 1 .. Len(batch) |-> Cardinality(batch[k].id.tags)],
                                      1 .. Len(batch))

\* C17, its case: a batch of an Add and a Max measurement with different values,
\* one identity with a tag of its own, was encoded under two common tags
C17_Witness ==
  /\ epc = "ret" /\ Len(batch) = 2 /\ Cardinality(common_tags) = 2
  /\ Recognized(batch[1]) /\ Recognized(batch[2])
  /\ Cardinality(batch[1].id.tags) = 2
  /\ OpCode(batch[1]) = 0 /\ OpCode(batch[2]) = 10
  /\ batch[1].value # batch[2].value
  /\ Len(Decode(payload)) = 2

\* C18 as stated: a measurement without a recognized statistic adds nothing to
\* the payload, no record and no string: the payload is that of the batch
\* without such measurements
C18_UnrecognizedExcluded ==
  epc = "ret" =>
    payload = measurements_to_json(common_tags,
                                   SelectSeq(batch, LAMBDA m : Recognized(m))).payload

====
